---- MODULE Spec2Model ----
(***************************************************************************)
(* Session store (AuthProvider), route gates and the Login/Register pages  *)
(* of the FAGE dashboard front end, as a state machine.                    *)
(*                                                                         *)
(* One action per callback the browser's event loop runs: the token       *)
(* effect of AuthProvider, the continuation of each awaited request, the   *)
(* submit handlers of the Login and Register pages, the Sign Out click.    *)
(* A callback runs to completion; React commits the state it set and runs  *)
(* the effects of that commit before the next event is handled, so every   *)
(* other action waits for a pending token effect (EffectsFlushed).         *)
(***************************************************************************)
EXTENDS Integers, FiniteSets, Sequences, Bags, TLC

\* Total number of login/register submissions in one run.
MaxCalls == 3

\* Opaque session tokens the server may hand out.
Tokens == {"t1", "t2"}

\* JavaScript null: no token, no user, nothing under the storage key.
None == "null"

\* The dependency list of an effect that has not run yet (before mount).
NotRun == "not-run"

\* err.response?.data?.detail of a rejected request: absent or a server text.
Details == {"", "detail from server"}

\* Why a request was rejected: HTTP 401, or anything else (network, 5xx).
Reasons == {"unauthorized", "other"}

\* Total number of slider edits in one run.
MaxEdits == 1

\* PUT /clients/me/budget requests in flight or with a pending message timer.
MaxPuts == 1

\* Positions of an allocation slider: min 0, max 1, step 0.05.
SliderSteps == 20

\* The positions the sliders are moved to: 0, 0.15, 0.35, 0.5 and 1.
SliderInputs == {k \in {0, 3, 7, 10, 20} : k <= SliderSteps}

\* Allocations GET /clients/me/budget may return, in hundredths.
ServerBudgets ==
    { <<50, 35, 15>>, <<50, 35, 14>>, <<50, 35, 16>>, <<50, 35, 9>>,
      <<50, 35, 22>>, <<1, 5, 93>>, <<110, -10, 0>> }

\* Clients GET /clients/me may return: with or without the optional fields.
ClientData == {"client-full", "client-bare"}

\* Requests and timers of AccountSetup still pending when the user starts
\* another request.
MaxPending == 2

\* An AdAccount, as far as the page reads it.
Account(p, s) == [platform |-> p, status |-> s]

\* Bodies GET /ad-accounts may return: no account, one platform, both.
AccountSets ==
    { {},
      {Account("meta", "connected")},
      {Account("google", "connected")},
      {Account("meta", "disconnected"), Account("google", "disconnected")},
      {Account("meta", "connected"), Account("google", "error")},
      {Account("meta", "error"), Account("google", "connected")},
      {Account("meta", "connected"), Account("google", "connected")} }

\* Bodies GET /automation/status may return.
AutoStatuses == {"active"}

VARIABLES
    storage,          \* localStorage['fage_token']
    token,            \* AuthProvider state
    user,             \* AuthProvider state
    isLoading,        \* AuthProvider state
    effectDep,        \* value of [token] at the last run of the effect
    fetches,          \* GET /auth/me requests in flight
    nFetch,           \* GET /auth/me requests issued so far
    nCalls,           \* POST /auth/login and /auth/register issued so far
    loginLoading,     \* Login page: loading (its POST is in flight)
    loginError,       \* Login page: error
    registerLoading,  \* Register page: loading (its POST is in flight)
    registerError,    \* Register page: error
    stMounted,        \* Settings page is mounted
    stClient,         \* Settings page: client
    stBudget,         \* Settings page: budget
    stForm,           \* Settings page: form
    allocations,      \* Settings page: allocations
    stMessage,        \* Settings page: message
    stLoading,        \* Settings page: loading
    stGets,           \* Settings page: the two GETs of fetchData
    stPuts,           \* Settings page: PUT /clients/me/budget in flight
    stTimers,         \* Settings page: pending setTimeout callbacks
    nEdits,           \* slider and input edits made so far
    asMounted,        \* AccountSetup page is mounted
    asClient,         \* AccountSetup page: client
    accounts,         \* AccountSetup page: accounts
    automationStatus, \* AccountSetup page: automationStatus
    budget,           \* AccountSetup page: budget, the text of the input
    budgetValue,      \* the number the budget field stands for (history)
    asLoading,        \* AccountSetup page: loading
    deploying,        \* AccountSetup page: deploying
    asMessage,        \* AccountSetup page: message
    asFetches,        \* AccountSetup page: fetchData calls not yet settled
    asPuts,           \* AccountSetup page: PUT /clients/me in flight
    asPosts,          \* AccountSetup page: POST /automation/deploy in flight
    asTimers,         \* AccountSetup page: pending setTimeout callbacks
    stalePosts,       \* POST /automation/deploy in flight, their page gone
    persisted         \* the monthly budget the page last loaded or saved
                      \* is > 0 (history)

pageVars == <<loginLoading, loginError, registerLoading, registerError>>

settingsVars == <<stMounted, stClient, stBudget, stForm, allocations, stMessage,
                  stLoading, stGets, stPuts, stTimers>>

\* State of the pages rendered inside ProtectedRoute.
setupVars == <<asMounted, asClient, accounts, automationStatus, budget, budgetValue,
               asLoading, deploying, asMessage, asFetches, asPuts, asPosts,
               asTimers, stalePosts, persisted>>

dataVars == <<settingsVars, nEdits, setupVars>>

vars == <<storage, token, user, isLoading, effectDep, fetches, nFetch, nCalls,
          pageVars, dataVars>>

\* The profile GET /auth/me returns for a request sent with token t.
Profile(t) == "profile-of-" \o t

\* The part of the state AuthProvider's callbacks read and write.
Session == [storage |-> storage, token |-> token, user |-> user, isLoading |-> isLoading]

Commit(s) ==
    /\ storage' = s.storage
    /\ token' = s.token
    /\ user' = s.user
    /\ isLoading' = s.isLoading

(***************************************************************************)
(* AuthProvider's callbacks as functions of the session.                   *)
(***************************************************************************)

\* fetchUser without its finally block on the success path.
fetchUser_resolved_noFinally(s, profile) ==
    [s EXCEPT !.user = profile]

\* fetchUser forgetting setUser on the success path.
fetchUser_resolved_dropsProfile(s, profile) ==
    [s EXCEPT !.isLoading = FALSE]

\* fetchUser, try branch: setUser(res.data), then finally.
fetchUser_resolved(s, profile) ==
    [s EXCEPT !.user = profile, !.isLoading = FALSE]

\* fetchUser discarding the session on a 401 only.
fetchUser_rejected_only401(s, reason) ==
    IF reason = "unauthorized"
    THEN [s EXCEPT !.storage = None, !.token = None, !.user = None, !.isLoading = FALSE]
    ELSE [s EXCEPT !.isLoading = FALSE]

\* fetchUser, catch branch (it catches whatever was thrown), then finally.
fetchUser_rejected(s, reason) ==
    [s EXCEPT !.storage = None, !.token = None, !.user = None, !.isLoading = FALSE]

\* login and register return the session they leave and whether the promise
\* they return rejects (thrown) or resolves.

\* login forgetting localStorage.setItem.
login_resolved_tokenOnly(s, t) ==
    [session |-> [s EXCEPT !.token = t], thrown |-> FALSE]

\* login raising isLoading for the profile fetch that follows.
login_resolved_setsLoading(s, t) ==
    [session |-> [s EXCEPT !.storage = t, !.token = t, !.isLoading = TRUE],
     thrown |-> FALSE]

\* login after its POST resolved with access_token t.
login_resolved(s, t) ==
    [session |-> [s EXCEPT !.storage = t, !.token = t], thrown |-> FALSE]

\* login catching the rejection itself.
login_rejected_swallowed(s) ==
    [session |-> s, thrown |-> FALSE]

\* login discarding the stored token when its POST is rejected.
login_rejected_clears(s) ==
    [session |-> [s EXCEPT !.storage = None, !.token = None], thrown |-> TRUE]

\* login after its POST rejected: the await throws, nothing else runs.
login_rejected(s) ==
    [session |-> s, thrown |-> TRUE]

\* register forgetting localStorage.setItem.
register_resolved_notStored(s, t) ==
    [session |-> [s EXCEPT !.token = t], thrown |-> FALSE]

\* register after its POST resolved with access_token t.
register_resolved(s, t) ==
    [session |-> [s EXCEPT !.storage = t, !.token = t], thrown |-> FALSE]

\* register after its POST rejected.
register_rejected(s) ==
    [session |-> s, thrown |-> TRUE]

\* logout forgetting setUser(null).
logout_keepsUser(s) ==
    [s EXCEPT !.storage = None, !.token = None]

\* logout forgetting localStorage.removeItem.
logout_keepsStorage(s) ==
    [s EXCEPT !.token = None, !.user = None]

\* logout.
logout(s) ==
    [s EXCEPT !.storage = None, !.token = None, !.user = None]

\* The token effect without its else branch.
effect_noToken_skipped(s) == s

\* The else branch of the token effect.
effect_noToken(s) ==
    [s EXCEPT !.isLoading = FALSE]


(***************************************************************************)
(* JavaScript numbers.  A number x is kept exactly, as [h, e] with         *)
(*     x = h/100 + e/(100 * 2^59),                                         *)
(* h the decimal hundredths and e the binary representation error.  Every  *)
(* double between 2^-7 and 4 is a multiple of 2^-59, so the numbers of the *)
(* pages (fractions written with two decimals, their sums and differences) *)
(* are all of this form with a small e, and round-to-nearest-even is       *)
(* computed on it exactly.                                                 *)
(***************************************************************************)

RECURSIVE PowMod2(_, _)
\* 2^n modulo m.
PowMod2(n, m) == IF n = 0 THEN 1 % m ELSE (2 * PowMod2(n - 1, m)) % m

\* x >= k/100, for a whole k.
AtLeast(x, k) == x.h > k \/ (x.h = k /\ x.e >= 0)

\* The spacing of the doubles around x >= 0, in units of 2^-59: 2^-52 in
\* [1, 2), half of it in [1/2, 1), and so on down to 2^-59 below 1/64.
Ulp(x) ==
    IF AtLeast(x, 200) THEN 256
    ELSE IF AtLeast(x, 100) THEN 128
    ELSE IF AtLeast(x, 50) THEN 64
    ELSE IF AtLeast(x, 25) THEN 32
    ELSE IF x.h >= 13 THEN 16
    ELSE IF x.h >= 7 THEN 8
    ELSE IF x.h >= 4 THEN 4
    ELSE IF x.h >= 2 THEN 2
    ELSE 1

\* x < 0, and -x.
IsNegative(x) == x.h < 0 \/ (x.h = 0 /\ x.e < 0)

Negated(x) == [h |-> -x.h, e |-> -x.e]

\* The double nearest to the real x >= 0, ties to the even mantissa.
RoundMagnitude(x) ==
    IF x.h = 0 THEN x
    ELSE
      LET m  == 100 * Ulp(x)
          r  == (x.h * PowMod2(59, m) + x.e) % m
          r2 == (x.h * PowMod2(59, 2 * m) + x.e) % (2 * m)
      IN  IF r = 0 THEN x
          ELSE IF 2 * r < m \/ (2 * r = m /\ r2 = r)
               THEN [h |-> x.h, e |-> x.e - r]
               ELSE [h |-> x.h, e |-> x.e - r + m]

\* The double nearest to the real x: rounding is symmetric in the sign.
RoundDouble(x) ==
    IF IsNegative(x) THEN Negated(RoundMagnitude(Negated(x))) ELSE RoundMagnitude(x)

\* The number a decimal literal or parseFloat gives for k/100.
Num(k) == RoundDouble([h |-> k, e |-> 0])

\* a + b.
NumAdd(a, b) == RoundDouble([h |-> a.h + b.h, e |-> a.e + b.e])

\* Math.abs(a - b).
NumAbsDiff(a, b) ==
    LET h == a.h - b.h
        e == a.e - b.e
    IN  IF h < 0 \/ (h = 0 /\ e < 0)
        THEN RoundDouble([h |-> -h, e |-> -e])
        ELSE RoundDouble([h |-> h, e |-> e])

\* a > b.
NumGt(a, b) == a.h > b.h \/ (a.h = b.h /\ a.e > b.e)

\* a < b.
NumLt(a, b) == NumGt(b, a)

\* x * 100 for 0 <= x < 4: the product is a multiple of 2^-59, rounded to
\* the spacing of the doubles around it (2^-46 from 64, 2^-45 from 128, ...).
TimesHundredMagnitude(x) ==
    LET u == IF AtLeast(x, 256) THEN 32768
             ELSE IF AtLeast(x, 128) THEN 16384
             ELSE IF AtLeast(x, 64) THEN 8192
             ELSE IF AtLeast(x, 32) THEN 4096
             ELSE IF AtLeast(x, 16) THEN 2048
             ELSE IF AtLeast(x, 8) THEN 1024
             ELSE IF AtLeast(x, 4) THEN 512
             ELSE IF AtLeast(x, 2) THEN 256
             ELSE 128
        r == x.e % u
        q == ((x.e - r) \div u) % 2
    IN  IF r = 0 THEN [h |-> 100 * x.h, e |-> 100 * x.e]
        ELSE IF 2 * r < u \/ (2 * r = u /\ q = 0)
             THEN [h |-> 100 * x.h, e |-> 100 * (x.e - r)]
             ELSE [h |-> 100 * x.h, e |-> 100 * (x.e - r + u)]

\* x * 100 for -4 < x < 4.
NumTimes100(x) ==
    IF IsNegative(x) THEN Negated(TimesHundredMagnitude(Negated(x)))
    ELSE TimesHundredMagnitude(x)

\* The digits of x.toFixed(0) for x >= 0: the nearest whole number, the
\* larger of two.
NearestWhole(x) ==
    LET q == x.h \div 100
        f == x.h % 100
    IN  IF f > 50 \/ (f = 50 /\ x.e >= 0)
        THEN ToString(q + 1)
        ELSE ToString(q)

\* x.toFixed(0): the sign, then the digits of the magnitude.
ToFixed0(x) ==
    IF IsNegative(x) THEN "-" \o NearestWhole(Negated(x)) ELSE NearestWhole(x)

(***************************************************************************)
(* Route gates.                                                            *)
(***************************************************************************)

\* ProtectedRoute testing user before isLoading.
ProtectedRoute_userFirst ==
    IF user = None THEN "redirect-to-login"
    ELSE IF isLoading THEN "render-loading"
    ELSE "render-content"

\* ProtectedRoute without its redirect.
ProtectedRoute_open ==
    IF isLoading THEN "render-loading" ELSE "render-content"

ProtectedRoute ==
    IF isLoading THEN "render-loading"
    ELSE IF user = None THEN "redirect-to-login"
    ELSE "render-content"

\* <Navigate to="/login" replace /> of ProtectedRoute.
ProtectedRedirect == [to |-> "/login", replace |-> TRUE]

\* <Navigate to="/dashboard" replace /> of PublicRoute.
PublicRedirect == [to |-> "/dashboard", replace |-> TRUE]

PublicRoute ==
    IF isLoading THEN "render-loading"
    ELSE IF user # None THEN "redirect-to-dashboard"
    ELSE "render-content"

\* JavaScript null and a present value, for state that holds objects.
Null == <<>>
Some(x) == <<x>>

NoMessage == [type |-> "", text |-> ""]

\* The useState initialisers of Settings.
DefaultForm == [company_name |-> "", website |-> "", industry |-> ""]

DefaultAllocations ==
    [prospecting_pct |-> Num(50), retargeting_pct |-> Num(35), testing_pct |-> Num(15)]

NoGets == [client |-> "none", budget |-> "none"]

SettingsUnmounted ==
    /\ stMounted = FALSE
    /\ stClient = Null
    /\ stBudget = Null
    /\ stForm = DefaultForm
    /\ allocations = DefaultAllocations
    /\ stMessage = NoMessage
    /\ stLoading = TRUE
    /\ stGets = NoGets
    /\ stPuts = {}
    /\ stTimers = 0

\* The useState initialisers of AccountSetup.
SetupUnmounted ==
    /\ asMounted = FALSE
    /\ asClient = Null
    /\ accounts = {}
    /\ automationStatus = Null
    /\ budget = <<>>
    /\ budgetValue = Null
    /\ asLoading = TRUE
    /\ deploying = FALSE
    /\ asMessage = NoMessage
    /\ asFetches = EmptyBag
    /\ asPuts = {}
    /\ asPosts = 0
    /\ asTimers = 0
    /\ stalePosts = 0
    /\ persisted = FALSE

(***************************************************************************)
(* Initial state: AuthProvider's useState initialisers, pages idle.        *)
(***************************************************************************)

Init ==
    /\ storage \in Tokens \cup {None}
    /\ token = storage
    /\ user = None
    /\ isLoading = TRUE
    /\ effectDep = NotRun
    /\ fetches = {}
    /\ nFetch = 0
    /\ nCalls = 0
    /\ loginLoading = FALSE
    /\ loginError = ""
    /\ registerLoading = FALSE
    /\ registerError = ""
    /\ SettingsUnmounted
    /\ nEdits = 0
    /\ SetupUnmounted

\* No effect of the last commit is pending.
EffectsFlushed == effectDep = token

(***************************************************************************)
(* useEffect(..., [token]): runs after mount and after every commit that   *)
(* changed token.                                                          *)
(***************************************************************************)
TokenEffect ==
    /\ effectDep # token
    /\ effectDep' = token
    /\ IF token # None
       THEN /\ fetches' = fetches \cup
                  {[id |-> nFetch + 1, tok |-> token, invalidated |-> FALSE]}
            /\ nFetch' = nFetch + 1
            /\ UNCHANGED <<storage, token, user, isLoading>>
       ELSE /\ Commit(effect_noToken(Session))
            /\ UNCHANGED <<fetches, nFetch>>
    /\ UNCHANGED <<nCalls, pageVars, dataVars>>

\* GET /auth/me of f resolved.
FetchUserOk(f) ==
    /\ EffectsFlushed
    /\ f \in fetches
    /\ fetches' = fetches \ {f}
    /\ Commit(fetchUser_resolved(Session, Profile(f.tok)))
    /\ UNCHANGED <<effectDep, nFetch, nCalls, pageVars, dataVars>>

\* GET /auth/me of f rejected.
FetchUserFail(f, reason) ==
    /\ EffectsFlushed
    /\ f \in fetches
    /\ fetches' = fetches \ {f}
    /\ Commit(fetchUser_rejected(Session, reason))
    /\ UNCHANGED <<effectDep, nFetch, nCalls, pageVars, dataVars>>

(***************************************************************************)
(* Login page (rendered inside PublicRoute).                               *)
(***************************************************************************)
LoginSubmit ==
    /\ EffectsFlushed
    /\ PublicRoute = "render-content"
    /\ ~loginLoading
    /\ nCalls < MaxCalls
    /\ loginError' = ""
    /\ loginLoading' = TRUE
    /\ nCalls' = nCalls + 1
    /\ UNCHANGED <<storage, token, user, isLoading, effectDep, fetches, nFetch,
                   registerLoading, registerError, dataVars>>

\* handleSubmit after `await login(...)` settled with result r: the catch
\* block when it threw (d is the detail of the error), then finally.
LoginSettled(r, d) ==
    /\ Commit(r.session)
    /\ loginError' = IF r.thrown
                     THEN (IF d # "" THEN d ELSE "Invalid credentials")
                     ELSE loginError
    /\ loginLoading' = FALSE
    /\ UNCHANGED <<effectDep, fetches, nFetch, nCalls,
                   registerLoading, registerError, dataVars>>

\* POST /auth/login resolved with access_token t.
LoginOk(t) ==
    /\ EffectsFlushed
    /\ loginLoading
    /\ LoginSettled(login_resolved(Session, t), "")

\* POST /auth/login rejected with detail d.
LoginFail(d) ==
    /\ EffectsFlushed
    /\ loginLoading
    /\ LoginSettled(login_rejected(Session), d)

(***************************************************************************)
(* Register page (rendered inside PublicRoute).                            *)
(***************************************************************************)
RegisterSubmit ==
    /\ EffectsFlushed
    /\ PublicRoute = "render-content"
    /\ ~registerLoading
    /\ nCalls < MaxCalls
    /\ registerError' = ""
    /\ registerLoading' = TRUE
    /\ nCalls' = nCalls + 1
    /\ UNCHANGED <<storage, token, user, isLoading, effectDep, fetches, nFetch,
                   loginLoading, loginError, dataVars>>

\* handleSubmit after `await register(...)` settled with result r.
RegisterSettled(r, d) ==
    /\ Commit(r.session)
    /\ registerError' = IF r.thrown
                        THEN (IF d # "" THEN d ELSE "Registration failed")
                        ELSE registerError
    /\ registerLoading' = FALSE
    /\ UNCHANGED <<effectDep, fetches, nFetch, nCalls,
                   loginLoading, loginError, dataVars>>

\* POST /auth/register resolved with access_token t.
RegisterOk(t) ==
    /\ EffectsFlushed
    /\ registerLoading
    /\ RegisterSettled(register_resolved(Session, t), "")

\* POST /auth/register rejected with detail d.
RegisterFail(d) ==
    /\ EffectsFlushed
    /\ registerLoading
    /\ RegisterSettled(register_rejected(Session), d)

(***************************************************************************)
(* Sign Out button of Layout (rendered inside ProtectedRoute).  The        *)
(* requests in flight are marked: they were issued before this logout.     *)
(***************************************************************************)
Logout ==
    /\ EffectsFlushed
    /\ ProtectedRoute = "render-content"
    /\ Commit(logout(Session))
    /\ fetches' = {[f EXCEPT !.invalidated = TRUE] : f \in fetches}
    /\ UNCHANGED <<effectDep, nFetch, nCalls, pageVars, dataVars>>


(***************************************************************************)
(* The request layer (api/client), as the design describes it: a request   *)
(* that carries the token and is rejected as unauthorized forces logout(). *)
(***************************************************************************)
api_rejected_ignores401(s, reason) == s

api_rejected(s, reason) ==
    IF reason = "unauthorized" THEN logout(s) ELSE s

(***************************************************************************)
(* Settings page (rendered inside ProtectedRoute).                         *)
(***************************************************************************)

\* The fields of a client the page reads.
ClientField(c, field) ==
    IF c = "client-full"
    THEN CASE field = "company_name" -> "Acme"
           [] field = "website" -> "https://acme.example"
           [] field = "industry" -> "retail"
    ELSE CASE field = "company_name" -> "Acme"
           [] field = "website" -> None
           [] field = "industry" -> None

\* value || ''
OrEmpty(v) == IF v = None THEN "" ELSE v

\* The body of GET /clients/me/budget for the hundredths b.
BudgetOf(b) ==
    [prospecting_pct |-> Num(b[1]), retargeting_pct |-> Num(b[2]), testing_pct |-> Num(b[3])]

\* The page's handlers run only while the page is on screen.
SettingsShown ==
    /\ stMounted
    /\ EffectsFlushed
    /\ ProtectedRoute = "render-content"

authVars == <<storage, token, user, isLoading>>

sessionVars == <<authVars, effectDep, fetches, nFetch, nCalls, pageVars>>

\* Navigation to /settings: the page mounts and its effect calls fetchData,
\* which issues both GETs.
SettingsMount ==
    /\ ~stMounted
    /\ EffectsFlushed
    /\ ProtectedRoute = "render-content"
    /\ stMounted' = TRUE
    /\ stGets' = [client |-> "pending", budget |-> "pending"]
    /\ UNCHANGED <<stClient, stBudget, stForm, allocations, stMessage, stLoading,
                   stPuts, stTimers, nEdits, sessionVars, setupVars>>

\* Navigation away, or the gate no longer rendering the page: its state is
\* dropped and the continuations of its requests no longer have an effect.
SettingsUnmount ==
    /\ stMounted
    /\ EffectsFlushed
    /\ stMounted' = FALSE
    /\ stClient' = Null
    /\ stBudget' = Null
    /\ stForm' = DefaultForm
    /\ allocations' = DefaultAllocations
    /\ stMessage' = NoMessage
    /\ stLoading' = TRUE
    /\ stGets' = NoGets
    /\ stPuts' = {}
    /\ stTimers' = 0
    /\ UNCHANGED <<nEdits, sessionVars, setupVars>>

\* fetchData after Promise.all resolved with client c and budget b.
fetchData_resolved(c, b) ==
    /\ stClient' = Some(c)
    /\ stBudget' = Some(BudgetOf(b))
    /\ stForm' = [company_name |-> OrEmpty(ClientField(c, "company_name")),
                  website |-> OrEmpty(ClientField(c, "website")),
                  industry |-> OrEmpty(ClientField(c, "industry"))]
    /\ allocations' = BudgetOf(b)
    /\ stLoading' = FALSE

\* fetchData after Promise.all rejected: the catch block is empty.
fetchData_rejected ==
    /\ stLoading' = FALSE
    /\ UNCHANGED <<stClient, stBudget, stForm, allocations>>

Other(which) == IF which = "client" THEN "budget" ELSE "client"

\* One of the two GETs of fetchData resolved; Promise.all resolves when the
\* other one has resolved too.
SettingsGetOk(which) ==
    /\ SettingsShown
    /\ stGets[which] = "pending"
    /\ IF stGets[Other(which)] = "ok"
       THEN /\ \E c \in ClientData, b \in ServerBudgets : fetchData_resolved(c, b)
            /\ stGets' = NoGets
       ELSE /\ stGets' = [stGets EXCEPT ![which] = "ok"]
            /\ UNCHANGED <<stClient, stBudget, stForm, allocations, stLoading>>
    /\ UNCHANGED <<stMounted, stMessage, stPuts, stTimers, nEdits, sessionVars, setupVars>>

\* One of the two GETs of fetchData was rejected; Promise.all rejects at the
\* first rejection.
SettingsGetFail(which, reason) ==
    /\ SettingsShown
    /\ stGets[which] = "pending"
    /\ Commit(api_rejected(Session, reason))
    /\ stGets' = [stGets EXCEPT ![which] = "failed"]
    /\ IF stGets[Other(which)] = "failed"
       THEN UNCHANGED <<stClient, stBudget, stForm, allocations, stLoading>>
       ELSE fetchData_rejected
    /\ UNCHANGED <<stMounted, stMessage, stPuts, stTimers, nEdits,
                   effectDep, fetches, nFetch, nCalls, pageVars, setupVars>>

\* onChange of an allocation slider moved to position k.
SliderChange(field, k) ==
    /\ SettingsShown
    /\ ~stLoading
    /\ nEdits < MaxEdits
    /\ nEdits' = nEdits + 1
    /\ allocations' = [allocations EXCEPT ![field] = Num(5 * k)]
    /\ UNCHANGED <<stMounted, stClient, stBudget, stForm, stMessage, stLoading,
                   stGets, stPuts, stTimers, sessionVars, setupVars>>

\* saveBudget: total of the three shares.
AllocationTotal(a) ==
    NumAdd(NumAdd(a.prospecting_pct, a.retargeting_pct), a.testing_pct)

\* saveBudget rejecting at the tolerance too.
AllocationRejected_strict(a) ==
    ~NumLt(NumAbsDiff(AllocationTotal(a), Num(100)), Num(1))

\* saveBudget: Math.abs(total - 1) > 0.01.
AllocationRejected(a) ==
    NumGt(NumAbsDiff(AllocationTotal(a), Num(100)), Num(1))

\* The total indicator asking for a total of exactly 1.
TotalIndicatorValid_exact(a) ==
    AllocationTotal(a) = Num(100)

\* The total indicator below the sliders: Math.abs(p + r + t - 1) < 0.01.
TotalIndicatorValid(a) ==
    NumLt(NumAbsDiff(AllocationTotal(a), Num(100)), Num(1))

\* The message of a rejected allocation without the factor 100.
AllocationError_unscaled(a) ==
    [type |-> "error",
     text |-> "Allocations must sum to 100% (currently "
                 \o ToFixed0(AllocationTotal(a)) \o "%)"]

\* saveBudget: the message of a rejected allocation.
AllocationError(a) ==
    [type |-> "error",
     text |-> "Allocations must sum to 100% (currently "
                 \o ToFixed0(NumTimes100(AllocationTotal(a))) \o "%)"]

\* saveBudget sending the allocation although the check failed.
SaveBudget_sendsAnyway ==
    /\ SettingsShown
    /\ ~stLoading
    /\ Cardinality(stPuts) + stTimers < MaxPuts
    /\ stPuts' = stPuts \cup {allocations}
    /\ IF AllocationRejected(allocations)
       THEN stMessage' = AllocationError(allocations)
       ELSE UNCHANGED stMessage
    /\ UNCHANGED <<stMounted, stClient, stBudget, stForm, allocations, stLoading,
                   stGets, stTimers, nEdits, sessionVars, setupVars>>

\* Click on Save Allocations: saveBudget up to its await.
SaveBudget ==
    /\ SettingsShown
    /\ ~stLoading
    /\ IF AllocationRejected(allocations)
       THEN /\ stMessage' = AllocationError(allocations)
            /\ UNCHANGED stPuts
       ELSE /\ Cardinality(stPuts) + stTimers < MaxPuts
            /\ stPuts' = stPuts \cup {allocations}
            /\ UNCHANGED stMessage
    /\ UNCHANGED <<stMounted, stClient, stBudget, stForm, allocations, stLoading,
                   stGets, stTimers, nEdits, sessionVars, setupVars>>

\* saveBudget after PUT /clients/me/budget resolved.
PutBudgetOk(a) ==
    /\ SettingsShown
    /\ a \in stPuts
    /\ stPuts' = stPuts \ {a}
    /\ stMessage' = [type |-> "success", text |-> "Budget allocations saved!"]
    /\ stTimers' = stTimers + 1
    /\ UNCHANGED <<stMounted, stClient, stBudget, stForm, allocations, stLoading,
                   stGets, nEdits, sessionVars, setupVars>>

\* saveBudget after PUT /clients/me/budget was rejected with detail d.
PutBudgetFail(a, d, reason) ==
    /\ SettingsShown
    /\ a \in stPuts
    /\ stPuts' = stPuts \ {a}
    /\ Commit(api_rejected(Session, reason))
    /\ stMessage' = [type |-> "error", text |-> IF d # "" THEN d ELSE "Failed to save"]
    /\ UNCHANGED <<stMounted, stClient, stBudget, stForm, allocations, stLoading,
                   stGets, stTimers, nEdits,
                   effectDep, fetches, nFetch, nCalls, pageVars, setupVars>>

\* The setTimeout callback of a successful save, 3 seconds later.
MessageTimeout ==
    /\ SettingsShown
    /\ stTimers > 0
    /\ stTimers' = stTimers - 1
    /\ stMessage' = NoMessage
    /\ UNCHANGED <<stMounted, stClient, stBudget, stForm, allocations, stLoading,
                   stGets, stPuts, nEdits, sessionVars, setupVars>>

AllocationFields == {"prospecting_pct", "retargeting_pct", "testing_pct"}

\* The session from a boot, with the Settings page.
SettingsNext ==
    \/ TokenEffect
    \/ \E f \in fetches : FetchUserOk(f)
    \/ \E f \in fetches, reason \in Reasons : FetchUserFail(f, reason)
    \/ Logout
    \/ SettingsMount
    \/ SettingsUnmount
    \/ \E which \in {"client", "budget"} : SettingsGetOk(which)
    \/ \E which \in {"client", "budget"}, reason \in Reasons : SettingsGetFail(which, reason)
    \/ \E field \in AllocationFields, k \in SliderInputs : SliderChange(field, k)
    \/ SaveBudget
    \/ \E a \in stPuts : PutBudgetOk(a)
    \/ \E a \in stPuts, d \in Details, reason \in Reasons : PutBudgetFail(a, d, reason)
    \/ MessageTimeout

SettingsSpec == Init /\ [][SettingsNext]_vars

(***************************************************************************)
(* JavaScript numbers and their text, as far as the budget field needs     *)
(* them: a finite decimal mant / 10^scale with a sign, or NaN.  Texts are   *)
(* sequences of characters over digits, sign, point and blank (exponent    *)
(* notation is outside the alphabet).                                      *)
(***************************************************************************)
Dec(neg, mant, scale) == [nan |-> FALSE, neg |-> neg, mant |-> mant, scale |-> scale]

NaN == [nan |-> TRUE, neg |-> FALSE, mant |-> 0, scale |-> 0]

Digits == <<"0", "1", "2", "3", "4", "5", "6", "7", "8", "9">>

IsDigit(c) == \E i \in 1..10 : Digits[i] = c

DigitVal(c) == (CHOOSE i \in 1..10 : Digits[i] = c) - 1

RECURSIVE Pow10(_)
Pow10(k) == IF k = 0 THEN 1 ELSE 10 * Pow10(k - 1)

\* The text without its leading white space.
RECURSIVE SkipSpaces(_)
SkipSpaces(str) ==
    IF str # <<>> /\ Head(str) = " " THEN SkipSpaces(Tail(str)) ELSE str

\* The longest prefix of digits.
RECURSIVE DigitPrefix(_)
DigitPrefix(str) ==
    IF str # <<>> /\ IsDigit(Head(str))
    THEN <<Head(str)>> \o DigitPrefix(Tail(str))
    ELSE <<>>

\* The number a sequence of digits denotes.
RECURSIVE DigitsValue(_)
DigitsValue(ds) ==
    IF ds = <<>> THEN 0
    ELSE 10 * DigitsValue(SubSeq(ds, 1, Len(ds) - 1)) + DigitVal(ds[Len(ds)])

\* parseFloat: the longest prefix that is a decimal literal, NaN if none.
parseFloat(str) ==
    LET s1 == SkipSpaces(str)
        signed == s1 # <<>> /\ Head(s1) \in {"-", "+"}
        neg == s1 # <<>> /\ Head(s1) = "-"
        s2 == IF signed THEN Tail(s1) ELSE s1
        ip == DigitPrefix(s2)
        s3 == SubSeq(s2, Len(ip) + 1, Len(s2))
        dot == s3 # <<>> /\ Head(s3) = "."
        fp == IF dot THEN DigitPrefix(Tail(s3)) ELSE <<>>
    IN  IF ip = <<>> /\ fp = <<>>
        THEN NaN
        ELSE [nan |-> FALSE, neg |-> neg, mant |-> DigitsValue(ip \o fp), scale |-> Len(fp)]

\* x > 0
GreaterThanZero(x) == ~x.nan /\ ~x.neg /\ x.mant > 0

\* x is falsy: 0, -0 or NaN.
Falsy(x) == x.nan \/ x.mant = 0

\* x || 0
OrZero(x) == IF Falsy(x) THEN Dec(FALSE, 0, 0) ELSE x

RECURSIVE IntDigits(_)
IntDigits(n) ==
    IF n < 10 THEN <<Digits[n + 1]>>
    ELSE IntDigits(n \div 10) \o <<Digits[(n % 10) + 1]>>

RECURSIVE FracDigits(_, _)
FracDigits(m, k) ==
    IF k = 0 THEN <<>>
    ELSE FracDigits(m \div 10, k - 1) \o <<Digits[(m % 10) + 1]>>

\* String(x) for a number without trailing zeros in its fraction.
NumberToString(x) ==
    IF x.nan THEN <<"N", "a", "N">>
    ELSE (IF x.neg /\ x.mant > 0 THEN <<"-">> ELSE <<>>)
         \o IntDigits(x.mant \div Pow10(x.scale))
         \o (IF x.scale > 0
             THEN <<".">> \o FracDigits(x.mant % Pow10(x.scale), x.scale)
             ELSE <<>>)

(***************************************************************************)
(* AccountSetup page (rendered inside ProtectedRoute).  The credential     *)
(* fields and the country, which the page only copies between the form and *)
(* the server, are left out; so are connectMeta and connectGoogle, which   *)
(* leave the application.                                                  *)
(***************************************************************************)

\* monthly_budget of the bodies GET /clients/me may return: absent, 0, 500
\* and 0.5.
ServerMonthly ==
    {Null, Some(Dec(FALSE, 0, 0)), Some(Dec(FALSE, 500, 0)), Some(Dec(FALSE, 5, 1))}

\* What the user types into the budget input: the text and the number it
\* stands for.
BudgetInputs ==
    {[text |-> <<>>, value |-> Null],
     [text |-> <<"0">>, value |-> Some(Dec(FALSE, 0, 0))],
     [text |-> <<"-", "1">>, value |-> Some(Dec(TRUE, 1, 0))],
     [text |-> <<".", "5">>, value |-> Some(Dec(FALSE, 5, 1))]}

\* The query of the URL the page is opened with (OAuth callback or none).
SearchParams ==
    {[meta |-> None, google |-> None, msg |-> None],
     [meta |-> "connected", google |-> "error", msg |-> None]}

\* A fetchData call: its three GETs are in flight and its Promise.all is
\* not settled.  asFetches is the bag of the calls with a GET in flight.
NewFetch == [pending |-> 3, rejected |-> FALSE]

\* The message the mount effect sets for the query q; the last set wins.
MountMessage(q) ==
    IF q.meta = "error" \/ q.google = "error"
    THEN [type |-> "error",
          text |-> "Connection failed: " \o (IF q.msg = None THEN "Unknown error" ELSE q.msg)]
    ELSE IF q.google = "connected"
    THEN [type |-> "success", text |-> "Google Ads connected successfully!"]
    ELSE IF q.meta = "connected"
    THEN [type |-> "success", text |-> "Meta Ads connected successfully!"]
    ELSE NoMessage

\* What the page, and the deploy requests of earlier visits, still wait for.
SetupPending ==
    Cardinality(asPuts) + asTimers + BagCardinality(asFetches) + asPosts + stalePosts

\* The page's handlers run only while the page is on screen.
SetupShown ==
    /\ asMounted
    /\ EffectsFlushed
    /\ ProtectedRoute = "render-content"

metaConnected ==
    \E a \in accounts : a.platform = "meta" /\ a.status = "connected"

googleConnected ==
    \E a \in accounts : a.platform = "google" /\ a.status = "connected"

\* canDeploy asking for both platforms.
canDeploy_bothPlatforms ==
    (metaConnected /\ googleConnected) /\ GreaterThanZero(parseFloat(budget))

canDeploy ==
    (metaConnected \/ googleConnected) /\ GreaterThanZero(parseFloat(budget))

\* The text of the deploy section.
DeployHint ==
    IF canDeploy
    THEN "Credentials saved and platforms authorized. Launch automation now."
    ELSE "Save credentials, authorize platforms, and set a budget to launch."

\* Navigation to /setup with query q: the page mounts and its effect calls
\* fetchData, which issues the three GETs, and sets the callback message.
SetupMount(q) ==
    /\ ~asMounted /\ ~stMounted
    /\ EffectsFlushed
    /\ ProtectedRoute = "render-content"
    /\ asMounted' = TRUE
    /\ asFetches' = SetToBag({NewFetch})
    /\ asMessage' = MountMessage(q)
    /\ UNCHANGED <<asClient, accounts, automationStatus, budget, budgetValue,
                   asLoading, deploying, asPuts, asPosts, asTimers,
                   stalePosts, persisted,
                   settingsVars, nEdits, sessionVars>>

\* The page is taken off the screen: its state is dropped and the
\* continuations of its requests no longer have an effect on a page.  The
\* deploy requests stay in flight.
SetupDropped ==
    /\ asMounted' = FALSE
    /\ asClient' = Null
    /\ accounts' = {}
    /\ automationStatus' = Null
    /\ budget' = <<>>
    /\ budgetValue' = Null
    /\ asLoading' = TRUE
    /\ deploying' = FALSE
    /\ asMessage' = NoMessage
    /\ asFetches' = EmptyBag
    /\ asPuts' = {}
    /\ asPosts' = 0
    /\ asTimers' = 0
    /\ stalePosts' = stalePosts + asPosts
    /\ persisted' = FALSE

\* Navigation away.
SetupUnmount ==
    /\ asMounted
    /\ EffectsFlushed
    /\ SetupDropped
    /\ UNCHANGED <<settingsVars, nEdits, sessionVars>>

\* A request of the page was rejected for the given reason: the request
\* layer acts on the session, and a session that lost its user makes
\* ProtectedRoute replace the page in the same commit.
Evicted(reason) == api_rejected(Session, reason).user = None

\* String(d.monthly_budget || '')
BudgetText(m) ==
    IF m = Null \/ Falsy(m[1]) THEN <<>> ELSE NumberToString(m[1])

\* fetchData after Promise.all resolved with client d, accounts accs and
\* automation status st.
setup_fetchData_resolved(d, accs, st) ==
    /\ asClient' = Some(d)
    /\ accounts' = accs
    /\ automationStatus' = Some(st)
    /\ budget' = BudgetText(d.monthly_budget)
    /\ budgetValue' = d.monthly_budget
    /\ persisted' = (d.monthly_budget # Null /\ GreaterThanZero(d.monthly_budget[1]))
    /\ asLoading' = FALSE

\* fetchData after Promise.all rejected: the catch block is empty.
setup_fetchData_rejected ==
    /\ asLoading' = FALSE
    /\ UNCHANGED <<asClient, accounts, automationStatus, budget, budgetValue,
                   persisted>>

\* The fetchData calls after one more GET of call f was answered: a call is
\* forgotten once all its requests are answered.
Answered(f, rejected) ==
    IF f.pending > 1
    THEN (asFetches (-) SetToBag({f}))
            (+) SetToBag({[pending |-> f.pending - 1, rejected |-> rejected]})
    ELSE asFetches (-) SetToBag({f})

\* One of the three GETs of fetchData call f resolved; Promise.all resolves
\* when all three have.
SetupGetOk(f) ==
    /\ SetupShown
    /\ BagIn(f, asFetches)
    /\ asFetches' = Answered(f, f.rejected)
    /\ IF f.pending = 1 /\ ~f.rejected
       THEN \E m \in ServerMonthly, accs \in AccountSets, st \in AutoStatuses :
               setup_fetchData_resolved([monthly_budget |-> m], accs, st)
       ELSE UNCHANGED <<asClient, accounts, automationStatus, budget,
                        budgetValue, persisted, asLoading>>
    /\ UNCHANGED <<asMounted, deploying, asMessage, asPuts, asPosts, asTimers, stalePosts,
                   settingsVars, nEdits, sessionVars>>

\* One of the three GETs of fetchData call f was rejected; Promise.all
\* rejects at the first rejection.
SetupGetFail(f, reason) ==
    /\ SetupShown
    /\ BagIn(f, asFetches)
    /\ Commit(api_rejected(Session, reason))
    /\ IF Evicted(reason)
       THEN SetupDropped
       ELSE /\ asFetches' = Answered(f, TRUE)
            /\ IF f.rejected
               THEN UNCHANGED <<asClient, accounts, automationStatus, budget,
                                budgetValue, persisted, asLoading>>
               ELSE setup_fetchData_rejected
            /\ UNCHANGED <<asMounted, deploying, asMessage, asPuts, asPosts, asTimers,
                           stalePosts>>
    /\ UNCHANGED <<settingsVars, nEdits,
                   effectDep, fetches, nFetch, nCalls, pageVars>>

\* onChange of the budget input.
BudgetChange(inp) ==
    /\ SetupShown
    /\ ~asLoading
    /\ budget' = inp.text
    /\ budgetValue' = inp.value
    /\ UNCHANGED <<asMounted, asClient, accounts, automationStatus, asLoading,
                   deploying, asMessage, asFetches, asPuts, asPosts, asTimers, stalePosts, persisted,
                   settingsVars, nEdits, sessionVars>>

\* Click on Save All Settings: saveSettings up to its await.
SaveSettings ==
    /\ SetupShown
    /\ ~asLoading
    /\ SetupPending < MaxPending
    /\ asPuts' = asPuts \cup {[monthly_budget |-> OrZero(parseFloat(budget))]}
    /\ UNCHANGED <<asMounted, asClient, accounts, automationStatus, budget,
                   budgetValue, asLoading, deploying, asMessage, asFetches,
                   asPosts, asTimers, stalePosts, persisted,
                   settingsVars, nEdits, sessionVars>>

\* saveSettings after PUT /clients/me resolved.
PutClientOk(b) ==
    /\ SetupShown
    /\ b \in asPuts
    /\ asPuts' = asPuts \ {b}
    /\ asMessage' = [type |-> "success", text |-> "Settings saved!"]
    /\ asTimers' = asTimers + 1
    /\ persisted' = GreaterThanZero(b.monthly_budget)
    /\ UNCHANGED <<asMounted, asClient, accounts, automationStatus, budget,
                   budgetValue, asLoading, deploying, asFetches, asPosts, stalePosts,
                   settingsVars, nEdits, sessionVars>>

\* saveSettings after PUT /clients/me was rejected with detail d.
PutClientFail(b, d, reason) ==
    /\ SetupShown
    /\ b \in asPuts
    /\ Commit(api_rejected(Session, reason))
    /\ IF Evicted(reason)
       THEN SetupDropped
       ELSE /\ asPuts' = asPuts \ {b}
            /\ asMessage' = [type |-> "error",
                             text |-> IF d # "" THEN d ELSE "Failed to save settings"]
            /\ UNCHANGED <<asMounted, asClient, accounts, automationStatus, budget,
                           budgetValue, asLoading, deploying, asFetches, asPosts,
                           asTimers, stalePosts, persisted>>
    /\ UNCHANGED <<settingsVars, nEdits,
                   effectDep, fetches, nFetch, nCalls, pageVars>>

\* The setTimeout callback of a successful saveSettings, 3 seconds later.
SetupMessageTimeout ==
    /\ SetupShown
    /\ asTimers > 0
    /\ asTimers' = asTimers - 1
    /\ asMessage' = NoMessage
    /\ UNCHANGED <<asMounted, asClient, accounts, automationStatus, budget,
                   budgetValue, asLoading, deploying, asFetches, asPuts,
                   asPosts, stalePosts, persisted,
                   settingsVars, nEdits, sessionVars>>

\* Click on Deploy Automation (disabled={!canDeploy || deploying}):
\* deployAutomation up to its await.
DeployClick ==
    /\ SetupShown
    /\ ~asLoading
    /\ canDeploy /\ ~deploying
    /\ SetupPending < MaxPending
    /\ deploying' = TRUE
    /\ asPosts' = asPosts + 1
    /\ UNCHANGED <<asMounted, asClient, accounts, automationStatus, budget,
                   budgetValue, asLoading, asMessage, asFetches, asPuts,
                   asTimers, stalePosts, persisted,
                   settingsVars, nEdits, sessionVars>>

\* deployAutomation after POST /automation/deploy resolved: fetchData is
\* called, not awaited.
DeployOk ==
    /\ SetupShown
    /\ asPosts > 0
    /\ asPosts' = asPosts - 1
    /\ asMessage' = [type |-> "success", text |-> "Automation deployed successfully!"]
    /\ asFetches' = asFetches (+) SetToBag({NewFetch})
    /\ deploying' = FALSE
    /\ UNCHANGED <<asMounted, asClient, accounts, automationStatus, budget,
                   budgetValue, asLoading, asPuts, asTimers,
                   stalePosts, persisted,
                   settingsVars, nEdits, sessionVars>>

\* deployAutomation after POST /automation/deploy was rejected with detail d.
DeployFail(d, reason) ==
    /\ SetupShown
    /\ asPosts > 0
    /\ Commit(api_rejected(Session, reason))
    /\ IF Evicted(reason)
       THEN SetupDropped
       ELSE /\ asPosts' = asPosts - 1
            /\ asMessage' = [type |-> "error",
                             text |-> IF d # "" THEN d ELSE "Deployment failed"]
            /\ deploying' = FALSE
            /\ UNCHANGED <<asMounted, asClient, accounts, automationStatus, budget,
                           budgetValue, asLoading, asFetches, asPuts, asTimers,
                           stalePosts, persisted>>
    /\ UNCHANGED <<settingsVars, nEdits,
                   effectDep, fetches, nFetch, nCalls, pageVars>>

\* A POST /automation/deploy whose page is gone resolved: the setters of the
\* unmounted page and the fetchData it calls have no effect.
StaleDeployOk ==
    /\ EffectsFlushed
    /\ stalePosts > 0
    /\ stalePosts' = stalePosts - 1
    /\ UNCHANGED <<asMounted, asClient, accounts, automationStatus, budget,
                   budgetValue, asLoading, deploying, asMessage, asFetches,
                   asPuts, asPosts, asTimers, persisted,
                   settingsVars, nEdits, sessionVars>>

\* A POST /automation/deploy whose page is gone was rejected: the request
\* layer still acts on the session.
StaleDeployFail(reason) ==
    /\ EffectsFlushed
    /\ stalePosts > 0
    /\ Commit(api_rejected(Session, reason))
    /\ IF Evicted(reason) /\ asMounted
       THEN SetupDropped
       ELSE /\ stalePosts' = stalePosts - 1
            /\ UNCHANGED <<asMounted, asClient, accounts, automationStatus, budget,
                           budgetValue, asLoading, deploying, asMessage, asFetches,
                           asPuts, asPosts, asTimers, persisted>>
    /\ UNCHANGED <<settingsVars, nEdits,
                   effectDep, fetches, nFetch, nCalls, pageVars>>

\* The session from a boot, with the AccountSetup page.
SetupNext ==
    \/ TokenEffect
    \/ \E f \in fetches : FetchUserOk(f)
    \/ \E f \in fetches, reason \in Reasons : FetchUserFail(f, reason)
    \/ \E q \in SearchParams : SetupMount(q)
    \/ SetupUnmount
    \/ \E f \in BagToSet(asFetches) : SetupGetOk(f)
    \/ \E f \in BagToSet(asFetches), reason \in Reasons : SetupGetFail(f, reason)
    \/ \E inp \in BudgetInputs : BudgetChange(inp)
    \/ SaveSettings
    \/ \E b \in asPuts : PutClientOk(b)
    \/ \E b \in asPuts, d \in Details, reason \in Reasons : PutClientFail(b, d, reason)
    \/ SetupMessageTimeout
    \/ DeployClick
    \/ DeployOk
    \/ \E d \in Details, reason \in Reasons : DeployFail(d, reason)
    \/ StaleDeployOk
    \/ \E reason \in Reasons : StaleDeployFail(reason)

\* A boot with a token in durable storage.
SetupInit == Init /\ storage = "t1"

SetupSpec == SetupInit /\ [][SetupNext]_vars

Next ==
    \/ TokenEffect
    \/ \E f \in fetches : FetchUserOk(f)
    \/ \E f \in fetches, reason \in Reasons : FetchUserFail(f, reason)
    \/ LoginSubmit
    \/ \E t \in Tokens : LoginOk(t)
    \/ \E d \in Details : LoginFail(d)
    \/ RegisterSubmit
    \/ \E t \in Tokens : RegisterOk(t)
    \/ \E d \in Details : RegisterFail(d)
    \/ Logout

Spec == Init /\ [][Next]_vars

\* Every issued request is answered and every pending effect runs.
FairSpec ==
    /\ Spec
    /\ WF_vars(TokenEffect)
    /\ WF_vars(\E f \in fetches : FetchUserOk(f) \/ \E reason \in Reasons : FetchUserFail(f, reason))

TypeOK ==
    /\ storage \in Tokens \cup {None}
    /\ token \in Tokens \cup {None}
    /\ user \in {None} \cup {Profile(t) : t \in Tokens}
    /\ isLoading \in BOOLEAN
    /\ effectDep \in Tokens \cup {None, NotRun}
    /\ \A f \in fetches : f.id \in 1..nFetch /\ f.tok \in Tokens /\ f.invalidated \in BOOLEAN
    /\ nFetch \in 0..(MaxCalls + 1)
    /\ nCalls \in 0..MaxCalls
    /\ loginLoading \in BOOLEAN /\ registerLoading \in BOOLEAN

(***************************************************************************)
(* Properties of the session store.                                        *)
(***************************************************************************)

Unauthenticated == token = None /\ user = None

\* C1: when logout() ran while a GET /auth/me was in flight and that request
\* later resolves successfully in a session that is still Unauthenticated,
\* user and token stay absent.
C1_LogoutInvalidatesFetch ==
    [][\A f \in fetches :
          (f.invalidated /\ Unauthenticated /\ FetchUserOk(f))
              => (user' = None /\ token' = None)]_vars

\* C2: in every reachable state user is present only if token is present.
C2_UserOnlyWithToken ==
    user # None => token # None

\* C3: at most one GET /auth/me is outstanding at any time.
C3_SingleFetchInFlight ==
    Cardinality(fetches) <= 1

\* C4: the first run of the token effect with nothing in durable storage
\* leaves token and user absent, sets isLoading to false and issues no
\* request.
C4_BootWithoutToken ==
    [][(effectDep = NotRun /\ storage = None)
          => /\ Unauthenticated' /\ storage' = None
             /\ ~isLoading'
             /\ fetches' = {} /\ nFetch' = 0 /\ nCalls' = 0]_vars

C4_Witness ==
    /\ effectDep = None /\ nFetch = 0 /\ nCalls = 0
    /\ Unauthenticated /\ ~isLoading

\* C5: when the GET /auth/me issued at boot is rejected, for whatever
\* reason, the durable token is removed, token and user are absent and
\* isLoading is false; and that is still so once the boot has settled.
C5_BootFetchFailure ==
    /\ [][\A f \in fetches, reason \in Reasons :
             (isLoading /\ FetchUserFail(f, reason))
                 => /\ storage' = None /\ Unauthenticated'
                    /\ ~isLoading']_vars
    /\ [](nCalls = 0 /\ nFetch = 1 /\ fetches = {} /\ user = None
             => storage = None /\ token = None /\ ~isLoading)

C5_Witness ==
    /\ nCalls = 0 /\ nFetch = 1 /\ fetches = {}
    /\ storage = None /\ Unauthenticated /\ ~isLoading
    /\ effectDep \in Tokens

\* A boot that found a token in durable storage, before its effect ran.
BootWithToken == effectDep = NotRun /\ token # None

\* A terminal state of the boot sequence.
BootSettled ==
    /\ ~isLoading /\ EffectsFlushed
    /\ \/ token # None /\ user # None
       \/ storage = None /\ Unauthenticated

\* C6: when every request is answered, a boot with a durable token reaches
\* a terminal state with isLoading false: Authenticated with the profile the
\* request returned when it resolves, Unauthenticated when it is rejected,
\* and a rejected boot request starts no further GET /auth/me.
C6_BootTerminates ==
    /\ BootWithToken ~> BootSettled
    /\ [][\A f \in fetches :
             (isLoading /\ FetchUserOk(f))
                 => /\ token' = f.tok /\ user' = Profile(f.tok)
                    /\ ~isLoading' /\ fetches' = {}]_vars
    /\ [][\A f \in fetches, reason \in Reasons :
             (isLoading /\ FetchUserFail(f, reason))
                 => Unauthenticated' /\ ~isLoading' /\ fetches' = {}]_vars
    /\ [](nCalls = 0 => nFetch <= 1)

C6_Witness ==
    /\ nCalls = 0 /\ nFetch = 1 /\ fetches = {}
    /\ token # None /\ user = Profile(token) /\ ~isLoading

\* C7: when login or register gets access_token t, durable storage holds t
\* and token is t once the call has returned, and register leaves the
\* session that login would leave.
C7_TokenDurableOnReturn ==
    /\ [][\A t \in Tokens :
             LoginOk(t) => storage' = t /\ token' = t /\ ~loginLoading']_vars
    /\ [][\A t \in Tokens :
             RegisterOk(t) => storage' = t /\ token' = t /\ ~registerLoading']_vars
    /\ [](\A t \in Tokens :
             register_resolved(Session, t) = login_resolved(Session, t))

C7_Witness ==
    /\ nCalls >= 2 /\ ~loginLoading /\ ~registerLoading
    /\ token \in Tokens /\ storage = token /\ effectDep \in Tokens \ {token}
    /\ loginError = "" /\ registerError = ""

\* C8: a rejected login or register call leaves storage, token, user and
\* isLoading as they were (an Unauthenticated session stays so) and the
\* page that called it shows the error.
C8_FailureSurfaced ==
    /\ [][\A d \in Details :
             LoginFail(d)
                 => /\ UNCHANGED <<storage, token, user, isLoading>>
                    /\ loginError' # "" /\ (d # "" => loginError' = d)]_vars
    /\ [][\A d \in Details :
             RegisterFail(d)
                 => /\ UNCHANGED <<storage, token, user, isLoading>>
                    /\ registerError' # "" /\ (d # "" => registerError' = d)]_vars

C8_Witness ==
    /\ loginError = "Invalid credentials" /\ ~loginLoading
    /\ storage = None /\ Unauthenticated /\ ~isLoading /\ nFetch = 0

\* C9: logout removes the durable token and sets token and user absent in
\* one step, whatever the session was, and neither it nor the effect of the
\* commit it causes issues a request.
C9_LogoutSynchronous ==
    /\ [][Logout
             => /\ storage' = None /\ Unauthenticated'
                /\ nFetch' = nFetch /\ nCalls' = nCalls
                /\ Cardinality(fetches') = Cardinality(fetches)]_vars
    /\ [][(token = None /\ TokenEffect)
             => nFetch' = nFetch /\ fetches' = fetches]_vars

C9_Witness ==
    /\ storage = None /\ Unauthenticated
    /\ effectDep \in Tokens
    /\ \E f \in fetches : f.invalidated

C11_UnauthorizedDestroysSession ==
    [][(\/ \E f \in fetches : FetchUserFail(f, "unauthorized")
        \/ \E which \in {"client", "budget"} : SettingsGetFail(which, "unauthorized")
        \/ \E a \in stPuts, d \in Details : PutBudgetFail(a, d, "unauthorized"))
          => storage' = None /\ Unauthenticated']_vars

C11_Witness ==
    /\ stMounted /\ stGets.client = "failed" /\ stGets.budget = "pending"
    /\ storage = None /\ Unauthenticated
    /\ effectDep \in Tokens

\* The states of the session state machine.
SessionState ==
    IF token = None /\ user = None THEN "Unauthenticated"
    ELSE IF token # None /\ user = None THEN "Authenticating"
    ELSE IF token # None /\ user # None THEN "Authenticated"
    ELSE "user-without-token"

\* C12: whenever isLoading is true both gates decide render-loading.
C12_LoadingShown ==
    isLoading => ProtectedRoute = "render-loading" /\ PublicRoute = "render-loading"

C12_Witness ==
    /\ isLoading /\ token # None /\ fetches # {}
    /\ ProtectedRoute = "render-loading"

\* C13: with isLoading false, the protected gate of an Unauthenticated
\* session decides redirect-to-login, replacing history; protected content
\* is never rendered for an Unauthenticated session.
C13_ProtectedRedirects ==
    /\ (~isLoading /\ SessionState = "Unauthenticated")
          => /\ ProtectedRoute = "redirect-to-login"
             /\ ProtectedRedirect.to = "/login" /\ ProtectedRedirect.replace
    /\ SessionState = "Unauthenticated" => ProtectedRoute # "render-content"

C13_Witness ==
    /\ ~isLoading /\ SessionState = "Unauthenticated" /\ nCalls = 0
    /\ ProtectedRoute = "redirect-to-login"

\* C14: with isLoading false, every combination of session state
\* and route class other than (protected, Unauthenticated) and (public,
\* Authenticated) decides render-content.
C14_OtherwiseContent ==
    ~isLoading
       => /\ SessionState \in {"Authenticating", "Authenticated"}
                => ProtectedRoute = "render-content"
          /\ SessionState \in {"Unauthenticated", "Authenticating"}
                => PublicRoute = "render-content"

\* C15: a logout, or a rejected GET /auth/me, that happens while the
\* protected gate renders content makes the gate's next decision
\* redirect-to-login.
C15_GateSeesLogout ==
    [][(/\ ProtectedRoute = "render-content"
        /\ \/ Logout
           \/ \E f \in fetches, reason \in Reasons : FetchUserFail(f, reason))
          => ProtectedRoute' = "redirect-to-login"]_vars

C15_Witness ==
    /\ SessionState = "Unauthenticated" /\ effectDep \in Tokens
    /\ nFetch >= 1 /\ fetches = {} /\ nCalls >= 1
    /\ ProtectedRoute = "redirect-to-login"

BootUnresolved ==
    effectDep = NotRun \/ \E f \in fetches : f.id = 1 /\ nCalls = 0

\* C17: isLoading is true only while the boot has not settled or a login or
\* register call is in flight.
C17_LoadingOnlyInTransit ==
    isLoading => BootUnresolved \/ loginLoading \/ registerLoading

C17_Witness ==
    /\ ~isLoading /\ ~BootUnresolved /\ ~loginLoading /\ ~registerLoading
    /\ nCalls >= 1 /\ SessionState = "Authenticating"

(***************************************************************************)
(* Properties of the deploy gate and of the allocation check.              *)
(***************************************************************************)

\* The number the budget field stands for is greater than 0.
BudgetPositive ==
    budgetValue # Null /\ ~budgetValue[1].nan /\ ~budgetValue[1].neg /\ budgetValue[1].mant > 0

\* C18: canDeploy is true exactly when at least one account has status
\* connected and the budget is greater than 0.
C18_CanDeploy ==
    canDeploy <=> ((\E a \in accounts : a.status = "connected") /\ BudgetPositive)

C18_Witness ==
    /\ SetupShown /\ ~asLoading /\ canDeploy
    /\ \E a \in accounts : a.status = "error"
    /\ budget = <<"0", ".", "5">>

\* Why deploy is not permitted.
DeployBlockedBy ==
    IF canDeploy THEN "nothing"
    ELSE IF ~(metaConnected \/ googleConnected) /\ ~GreaterThanZero(parseFloat(budget))
    THEN "both"
    ELSE IF ~(metaConnected \/ googleConnected) THEN "no connected platform"
    ELSE "no budget set"

\* C19: while canDeploy is false the text of the deploy section tells the
\* three causes apart: when the cause changes, the text changes.
C19_ReasonNamesCause ==
    [][(/\ SetupShown /\ ~asLoading /\ asMounted' /\ ~asLoading'
        /\ ~canDeploy /\ ~canDeploy'
        /\ DeployBlockedBy # DeployBlockedBy')
          => DeployHint # DeployHint']_vars

\* The sum of an allocation's shares in hundredths is 99, 100 or 101.
WithinTolerance(a) ==
    (a.prospecting_pct.h + a.retargeting_pct.h + a.testing_pct.h) \in 99..101

\* C20: a click on Save Allocations sends the allocation exactly when the
\* sum of its shares differs from 1 by at most 0.01.
C20_AcceptsWithinTolerance ==
    [][SaveBudget => ((allocations \in stPuts') <=> WithinTolerance(allocations))]_vars

\* The whole percent a sum of shares amounts to.
WholePercent(a) ==
    ToString(a.prospecting_pct.h + a.retargeting_pct.h + a.testing_pct.h)

\* C21: the message of a rejected save names the total as a whole percent.
C21_ErrorNamesTotal ==
    [][(SaveBudget /\ AllocationRejected(allocations))
          => stMessage' = [type |-> "error",
                           text |-> "Allocations must sum to 100% (currently "
                                       \o WholePercent(allocations) \o "%)"]]_vars

C21_Witness ==
    /\ allocations = BudgetOf(<<50, 35, 9>>)
    /\ stMessage.text = "Allocations must sum to 100% (currently 94%)"

\* C22: a save of a rejected allocation sends no PUT and changes only the
\* message; a PUT is sent only by a save whose allocation passed the check,
\* and it carries that allocation; an edit neither sends nor reports.
C22_CheckBeforeSend ==
    /\ [][(SaveBudget /\ AllocationRejected(allocations))
            => /\ stPuts' = stPuts
               /\ allocations' = allocations /\ stClient' = stClient
               /\ stBudget' = stBudget /\ stForm' = stForm]_vars
    /\ [][(stPuts' \ stPuts # {})
            => /\ SaveBudget /\ ~AllocationRejected(allocations)
               /\ stPuts' = stPuts \cup {allocations}]_vars
    /\ [][(\E field \in AllocationFields, k \in SliderInputs : SliderChange(field, k))
            => stMessage' = stMessage /\ stPuts' = stPuts]_vars

C22_Witness ==
    /\ allocations = BudgetOf(<<50, 35, 22>>)
    /\ stMessage = AllocationError(allocations)
    /\ stPuts = {} /\ stBudget = Some(allocations)

\* C23: once both GETs of the Settings page are answered, the one that
\* succeeded has updated its slice of the state.
C23_SucceededFetchApplied ==
    /\ (SettingsShown /\ stGets.client = "ok" /\ stGets.budget = "failed")
          => stClient # Null
    /\ (SettingsShown /\ stGets.budget = "ok" /\ stGets.client = "failed")
          => stBudget # Null

\* Every share of a lies in [0, 1].
SharesInRange(a) ==
    \A field \in AllocationFields :
        ~IsNegative(a[field]) /\ ~NumGt(a[field], Num(100))

\* C24: every allocation sent in PUT /clients/me/budget has its three
\* shares in [0, 1].
C24_SentSharesInRange ==
    \A a \in stPuts : SharesInRange(a)

\* C30: the total indicator shows an allocation as valid exactly when
\* saveBudget would accept it.
C30_IndicatorAgreesWithSave ==
    TotalIndicatorValid(allocations) <=> ~AllocationRejected(allocations)

C30_Witness ==
    /\ SettingsShown /\ ~stLoading
    /\ allocations = BudgetOf(<<1, 5, 93>>)
    /\ TotalIndicatorValid(allocations)

(***************************************************************************)
(* Properties of the token and the profile across logins.                  *)
(***************************************************************************)

\* C25: in every state the token in memory is the one in durable storage:
\* both absent, or both the same token.
C25_TokenMirrorsStorage ==
    token = storage

C25_Witness ==
    /\ nCalls >= 2 /\ token \in Tokens /\ storage = token
    /\ EffectsFlushed

\* C26: a rejected GET /auth/me that was sent for an earlier token leaves
\* the current token in memory and in durable storage.
C26_FailureClearsOwnToken ==
    [][\A f \in fetches, reason \in Reasons :
          (FetchUserFail(f, reason) /\ token # None /\ token # f.tok)
              => (token' = token /\ storage' = storage)]_vars

\* C27: a profile that is present next to a token is the profile of that
\* token.
C27_ProfileOfCurrentToken ==
    (user # None /\ token # None) => user = Profile(token)

\* A POST /automation/deploy leaves the page in this step.
DeployIssued == asPosts' > asPosts

\* The page's own deploy attempt ends in this step, the page staying.
DeployEnded == asMounted /\ asMounted' /\ asPosts' < asPosts

\* C28: no POST /automation/deploy is issued in a state where canDeploy is
\* false, none is issued while an earlier deploy request is still in flight,
\* and the deploying flag is false again after each deploy attempt, whether
\* it succeeded or failed.
C28_DeployGuarded ==
    [][ /\ DeployIssued => (canDeploy /\ asPosts = 0 /\ stalePosts = 0)
        /\ DeployEnded => ~deploying' ]_vars

\* The parts of C28 the button's disabled attribute and the finally block
\* provide: canDeploy holds when a request is issued, none of this page's
\* requests is in flight then, and the flag is false after an attempt.
C28_GuardedWithinVisit ==
    [][ /\ DeployIssued => (canDeploy /\ asPosts = 0)
        /\ DeployEnded => ~deploying' ]_vars

\* C29: whenever the deploy action is enabled, the monthly budget last loaded
\* by fetchData or last successfully saved by saveSettings is greater than 0.
C29_DeployNeedsSavedBudget ==
    (SetupShown /\ ~asLoading /\ canDeploy /\ ~deploying) => persisted

====
